---- MODULE Spec2Model ----
(***************************************************************************)
(* Model of the xcomponent crate (src/src/lib.rs): the validated Handle     *)
(* (XComponent), its two queries (size, get_touch_event) and the callback   *)
(* registration protocol (register_xcomponent_callbacks), together with the *)
(* environment the crate talks to: the native ABI, the host object model,   *)
(* the caller's frame and the native-runtime thread that dereferences a     *)
(* registered callback table after registration has returned.               *)
(***************************************************************************)
EXTENDS Integers, Sequences, FiniteSets, TLC

VARIABLES
    handle,        \* Option<XComponent>: <<>> or <<[xcomponent, window]>>
    ctorArgs,      \* the raw pointer pair the live Handle was constructed from
    live,          \* callback tables whose storage is currently valid
    nativeTable,   \* native runtime: table address retained per component
    uaf,           \* a native-runtime thread has read a table that was freed
    regSeen,       \* components an earlier register call has unwrapped
    last           \* record of the most recent step

vars == <<handle, ctorArgs, live, nativeTable, uaf, regSeen, last>>

----------------------------------------------------------------------------
(* Bounds of the model *)

MaxPtr == 2
MaxDim == 1
MaxRec == 1

(* core::ptr::null_mut(): the null address *)
NULL == 0

Ptr == NULL..MaxPtr
Comp == Ptr \ {NULL}
Dim == 0..MaxDim
Rec == 0..MaxRec

(* i32 status codes of the native ABI: 0 is success, anything else a code *)
Status == {-1, 0, 5}
Failure == Status \ {0}

(* Callback tables a caller can name: a static and a local of the caller's  *)
(* frame.                                                                   *)
StaticTables == {"XC_CALLBACKS"}
FrameTables == {"frame_local"}
Tables == StaticTables \cup FrameTables

TableKind(t) ==
    IF t \in StaticTables THEN "static"
    ELSE IF t \in FrameTables THEN "stack"
    ELSE "leaked_heap"

----------------------------------------------------------------------------
(* What one call of the crate did: the foreign functions it called, in      *)
(* order, the pointers it passed to the native ABI, whether it read the     *)
(* touch-event storage, and what it returned.                               *)

Res(tag, code, x, y) == [tag |-> tag, code |-> code, x |-> x, y |-> y]

Did(calls, xcomponent, window, callback, storageRead, result) ==
    [calls |-> calls, xcomponent |-> xcomponent, window |-> window,
     callback |-> callback, storageRead |-> storageRead, result |-> result]

GET_TOUCH_EVENT == "OH_NativeXComponent_GetTouchEvent"
GET_SIZE == "OH_NativeXComponent_GetXComponentSize"
LOOKUP == "get_named_property"
UNWRAP == "napi_unwrap"
REGISTER == "OH_NativeXComponent_RegisterCallback"

----------------------------------------------------------------------------
(* XComponent::new *)

new_window_unchecked(xcomponent, window) ==
    IF xcomponent = NULL
        THEN <<>>
        ELSE <<[xcomponent |-> xcomponent, window |-> window]>>

XComponent_new(xcomponent, window) ==
    IF xcomponent = NULL THEN <<>>
    ELSE IF window = NULL THEN <<>>
    ELSE <<[xcomponent |-> xcomponent, window |-> window]>>

----------------------------------------------------------------------------
(* XComponent::get_touch_event.  The native call answers `status` and, when *)
(* `wrote`, has filled the MaybeUninit storage with `rec`; reading storage  *)
(* that was not filled yields an arbitrary value, `garbage`.                *)

get_touch_event_unchecked(h, status, wrote, rec, garbage) ==
    Did(<<GET_TOUCH_EVENT>>, h.xcomponent, h.window, "none", TRUE,
        Res("Ok", 0, IF wrote THEN rec ELSE garbage, 0))

get_touch_event(h, status, wrote, rec, garbage) ==
    IF status # 0
        THEN Did(<<GET_TOUCH_EVENT>>, h.xcomponent, h.window, "none", FALSE,
                 Res("Err", status, 0, 0))
        ELSE Did(<<GET_TOUCH_EVENT>>, h.xcomponent, h.window, "none", TRUE,
                 Res("Ok", 0, IF wrote THEN rec ELSE garbage, 0))

----------------------------------------------------------------------------
(* XComponent::size.  width and height start at 0; the native call answers  *)
(* `status` and, when `wrote`, has stored (w, h) into the two slots.        *)

size_no_assert(self, status, wrote, w, h) ==
    Did(<<GET_SIZE>>, self.xcomponent, self.window, "none", FALSE,
        Res("Size", 0, IF wrote THEN w ELSE 0, IF wrote THEN h ELSE 0))

size_swapped(self, status, wrote, w, h) ==
    Did(<<GET_SIZE>>, self.window, self.xcomponent, "none", FALSE,
        IF status = 0
            THEN Res("Size", 0, IF wrote THEN w ELSE 0, IF wrote THEN h ELSE 0)
            ELSE Res("Panic", 0, 0, 0))

size(self, status, wrote, w, h) ==
    LET width == IF wrote THEN w ELSE 0
        height == IF wrote THEN h ELSE 0
    IN  Did(<<GET_SIZE>>, self.xcomponent, self.window, "none", FALSE,
            IF status = 0 THEN Res("Size", 0, width, height)
                          ELSE Res("Panic", 0, 0, 0))

----------------------------------------------------------------------------
(* register_xcomponent_callbacks.  `prop`: the exports object has the       *)
(* property __NATIVE_XCOMPONENT_OBJ__; napi_unwrap answers `ustatus` and    *)
(* leaves `native_xcomponent` in the slot, which is NULL when it stored     *)
(* nothing; the native registration call answers `rstatus`.                 *)

register_skip_unwrap_check(prop, ustatus, native_xcomponent, rstatus, callbacks) ==
    IF ~prop
        THEN Did(<<LOOKUP>>, NULL, NULL, "none", FALSE,
                 Res("XcomponentPropertyMissing", 0, 0, 0))
    ELSE Did(<<LOOKUP, UNWRAP, REGISTER>>, native_xcomponent, NULL, callbacks,
             FALSE,
             IF rstatus # 0 THEN Res("RegisterCallbackFailed", rstatus, 0, 0)
                            ELSE Res("Ok", 0, 0, 0))

register_ignores_status(prop, ustatus, native_xcomponent, rstatus, callbacks) ==
    IF ~prop
        THEN Did(<<LOOKUP>>, NULL, NULL, "none", FALSE,
                 Res("XcomponentPropertyMissing", 0, 0, 0))
    ELSE IF ustatus # 0
        THEN Did(<<LOOKUP, UNWRAP>>, NULL, NULL, "none", FALSE,
                 Res("UnwrapXComponentFailed", ustatus, 0, 0))
    ELSE Did(<<LOOKUP, UNWRAP, REGISTER>>, native_xcomponent, NULL, callbacks,
             FALSE, Res("Ok", 0, 0, 0))

register_one_shot(prop, ustatus, native_xcomponent, rstatus, callbacks) ==
    IF ~prop
        THEN Did(<<LOOKUP>>, NULL, NULL, "none", FALSE,
                 Res("XcomponentPropertyMissing", 0, 0, 0))
    ELSE IF ustatus # 0
        THEN Did(<<LOOKUP, UNWRAP>>, NULL, NULL, "none", FALSE,
                 Res("UnwrapXComponentFailed", ustatus, 0, 0))
    ELSE IF native_xcomponent \in regSeen
        THEN Did(<<LOOKUP, UNWRAP>>, NULL, NULL, "none", FALSE,
                 Res("Ok", 0, 0, 0))
    ELSE Did(<<LOOKUP, UNWRAP, REGISTER>>, native_xcomponent, NULL, callbacks,
             FALSE,
             IF rstatus # 0 THEN Res("RegisterCallbackFailed", rstatus, 0, 0)
                            ELSE Res("Ok", 0, 0, 0))

register_xcomponent_callbacks(prop, ustatus, native_xcomponent, rstatus, callbacks) ==
    IF ~prop
        THEN Did(<<LOOKUP>>, NULL, NULL, "none", FALSE,
                 Res("XcomponentPropertyMissing", 0, 0, 0))
    ELSE IF ustatus # 0
        THEN Did(<<LOOKUP, UNWRAP>>, NULL, NULL, "none", FALSE,
                 Res("UnwrapXComponentFailed", ustatus, 0, 0))
    ELSE IF rstatus # 0
        THEN Did(<<LOOKUP, UNWRAP, REGISTER>>, native_xcomponent, NULL,
                 callbacks, FALSE,
                 Res("RegisterCallbackFailed", rstatus, 0, 0))
    ELSE Did(<<LOOKUP, UNWRAP, REGISTER>>, native_xcomponent, NULL, callbacks,
             FALSE, Res("Ok", 0, 0, 0))

(* The tables a caller can pass as `callbacks`: the parameter's type is     *)
(* &'static, so only live tables of static storage are accepted.            *)
AnyLiveTable == live

RegisterableTables == live \cap StaticTables

(* Tables whose storage register_xcomponent_callbacks releases when it      *)
(* returns: it only borrows `callbacks`, so none.                           *)
DroppedOnReturn(callbacks) == {callbacks}

ReclaimedOnReturn(callbacks) == {}

----------------------------------------------------------------------------
(* The record of a step: what the call did (d) and what the environment     *)
(* gave it.  a, b: the raw pointers given to new, the record written by the *)
(* touch-event call, the (w, h) written by the size call, the pointer left  *)
(* by napi_unwrap.  status: the answer of the native ABI call; ustatus: of  *)
(* napi_unwrap.                                                             *)

Called(r, fn) == \E i \in 1..Len(r.calls) : r.calls[i] = fn

Step(op, d, a, b, wrote, status, prop, ustatus, repeat) ==
    [op |-> op, calls |-> d.calls, xcomponent |-> d.xcomponent,
     window |-> d.window, callback |-> d.callback,
     storageRead |-> d.storageRead, result |-> d.result,
     a |-> a, b |-> b, wrote |-> wrote, status |-> status, prop |-> prop,
     ustatus |-> ustatus, repeat |-> repeat]

EnvStep(op, xcomponent, callback) ==
    Step(op, Did(<<>>, xcomponent, NULL, callback, FALSE, Res("None", 0, 0, 0)),
         0, 0, FALSE, 0, FALSE, 0, FALSE)

----------------------------------------------------------------------------
Init ==
    /\ handle = <<>>
    /\ ctorArgs = <<>>
    /\ live = StaticTables
    /\ nativeTable = [c \in Comp |-> "none"]
    /\ uaf = FALSE
    /\ regSeen = {}
    /\ last = EnvStep("init", NULL, "none")

(* let xc = XComponent::new(xcomponent, window) *)
New(xcomponent, window) ==
    LET h == XComponent_new(xcomponent, window)
    IN  /\ handle' = h
        /\ ctorArgs' = IF h = <<>> THEN <<>> ELSE <<xcomponent, window>>
        /\ last' = Step("new",
                        Did(<<>>, NULL, NULL, "none", FALSE,
                            IF h = <<>>
                                THEN Res("None", 0, 0, 0)
                                ELSE Res("Some", 0, h[1].xcomponent,
                                         h[1].window)),
                        xcomponent, window, FALSE, 0, FALSE, 0, FALSE)
        /\ UNCHANGED <<live, nativeTable, uaf, regSeen>>

(* xc.get_touch_event() *)
GetTouchEvent(status, wrote, rec, garbage) ==
    /\ handle # <<>>
    /\ last' = Step("get_touch_event",
                    get_touch_event(handle[1], status, wrote, rec, garbage),
                    IF wrote THEN rec ELSE 0, 0, wrote, status, FALSE, 0,
                    FALSE)
    /\ UNCHANGED <<handle, ctorArgs, live, nativeTable, uaf, regSeen>>

(* xc.size(); a failed assertion unwinds the caller's frame and drops xc *)
Size(status, wrote, w, h) ==
    /\ handle # <<>>
    /\ LET d == size(handle[1], status, wrote, w, h)
       IN  /\ last' = Step("size", d, IF wrote THEN w ELSE 0,
                           IF wrote THEN h ELSE 0, wrote, status, FALSE, 0,
                           FALSE)
           /\ handle' = IF d.result.tag = "Panic" THEN <<>> ELSE handle
           /\ ctorArgs' = IF d.result.tag = "Panic" THEN <<>> ELSE ctorArgs
    /\ UNCHANGED <<live, nativeTable, uaf, regSeen>>

(* register_xcomponent_callbacks(&exports, &env, callbacks), with the       *)
(* native runtime retaining the table's address when it reports success.    *)
Register(prop, ustatus, out, rstatus, callbacks) ==
    /\ callbacks \in RegisterableTables
    /\ LET d == register_xcomponent_callbacks(prop, ustatus, out, rstatus,
                                              callbacks)
           native == Called(d, REGISTER)
           unwrapped == prop /\ ustatus = 0
       IN  /\ last' = Step("register", d,
                           IF Called(d, UNWRAP) THEN out ELSE NULL, 0, FALSE,
                           IF native THEN rstatus ELSE 0,
                           prop,
                           IF Called(d, UNWRAP) THEN ustatus ELSE 0,
                           unwrapped /\ out \in regSeen)
           /\ nativeTable' =
                  IF native /\ rstatus = 0 /\ d.xcomponent \in Comp
                      THEN [nativeTable EXCEPT ![d.xcomponent] = d.callback]
                      ELSE nativeTable
           /\ regSeen' = IF unwrapped /\ out \in Comp
                             THEN regSeen \cup {out}
                             ELSE regSeen
           /\ live' = live \ ReclaimedOnReturn(callbacks)
    /\ UNCHANGED <<handle, ctorArgs, uaf>>

(* The caller enters a frame that holds a callback table as a local *)
CallerFrameEnter ==
    /\ ~(FrameTables \subseteq live)
    /\ live' = live \cup FrameTables
    /\ last' = EnvStep("frame_enter", NULL, "none")
    /\ UNCHANGED <<handle, ctorArgs, nativeTable, uaf, regSeen>>

(* ... and leaves it: the local's storage is gone *)
CallerFrameExit ==
    /\ FrameTables \subseteq live
    /\ live' = live \ FrameTables
    /\ last' = EnvStep("frame_exit", NULL, "none")
    /\ UNCHANGED <<handle, ctorArgs, nativeTable, uaf, regSeen>>

(* A native-runtime thread dereferences the table registered for c *)
NativeThreadDeref(c) ==
    /\ nativeTable[c] # "none"
    /\ uaf' = (uaf \/ nativeTable[c] \notin live)
    /\ last' = EnvStep("native_thread", c, nativeTable[c])
    /\ UNCHANGED <<handle, ctorArgs, live, nativeTable, regSeen>>

(* The environment answers only the calls that are made: when the lookup    *)
(* fails nothing else is asked, and when napi_unwrap fails the registration *)
(* call, were it made all the same, would succeed.                          *)
Next ==
    \/ \E xcomponent \in Ptr, window \in Ptr : New(xcomponent, window)
    \/ \E status \in Status, wrote \in BOOLEAN, rec \in Rec :
           GetTouchEvent(status, wrote, rec, rec)
    \/ \E status \in Status, w \in Dim, h \in Dim : Size(status, TRUE, w, h)
    \/ \E status \in Status : Size(status, FALSE, 0, 0)
    \/ \E callbacks \in Tables : Register(FALSE, 0, NULL, 0, callbacks)
    \/ \E callbacks \in Tables, ustatus \in Failure, out \in Ptr :
           Register(TRUE, ustatus, out, 0, callbacks)
    \/ \E callbacks \in Tables, out \in Ptr, rstatus \in Status :
           Register(TRUE, 0, out, rstatus, callbacks)
    \/ CallerFrameEnter
    \/ CallerFrameExit
    \/ \E c \in Comp : NativeThreadDeref(c)

Spec == Init /\ [][Next]_vars

----------------------------------------------------------------------------
(* Properties *)

NativeCalled ==
    Called(last, GET_SIZE) \/ Called(last, GET_TOUCH_EVENT)
        \/ Called(last, REGISTER)

Registered(c) == nativeTable[c] # "none" /\ nativeTable[c] \in live

(* C1: XComponent::new returns a Handle holding the two pointers if and     *)
(* only if both are non-null, returns None when either is null, calls no    *)
(* foreign function, and a step of new leaves the tables, the native        *)
(* runtime's registrations and the registration history as they were.       *)
NewAdmitsIffBothNonNull ==
    /\ [](last.op = "new" =>
            /\ last.result.tag = "Some" <=> (last.a # NULL /\ last.b # NULL)
            /\ last.result.tag = "None" <=> (last.a = NULL \/ last.b = NULL)
            /\ last.result.tag = "Some" =>
                   handle = <<[xcomponent |-> last.a, window |-> last.b]>>
            /\ last.result.tag = "None" => handle = <<>>
            /\ last.calls = <<>>)
    /\ [][last'.op = "new" =>
            UNCHANGED <<live, nativeTable, uaf, regSeen>>]_vars

NewRejectsNullWindow ==
    /\ last.op = "new"
    /\ last.a # NULL
    /\ last.b = NULL
    /\ last.result.tag = "None"

(* C2: get_touch_event, on a non-zero status s, returns Err(s) without      *)
(* reading the output storage; on status zero it returns the record the     *)
(* native call wrote into the storage.                                      *)
TouchEventFollowsStatus ==
    last.op = "get_touch_event" =>
        /\ Called(last, GET_TOUCH_EVENT)
        /\ last.status # 0 =>
               /\ last.result = Res("Err", last.status, 0, 0)
               /\ ~last.storageRead
        /\ (last.status = 0 /\ last.wrote) =>
               last.result = Res("Ok", 0, last.a, 0)

TouchEventFailedAfterWrite ==
    /\ last.op = "get_touch_event"
    /\ last.status # 0
    /\ last.wrote
    /\ last.a # 0
    /\ last.result.tag = "Err"

(* C3: size returns Size(w, h) when the native call wrote (w, h) and        *)
(* answered 0, and panics, returning no Size, on any non-zero status.       *)
SizeOrPanic ==
    last.op = "size" =>
        /\ Called(last, GET_SIZE)
        /\ (last.status = 0 /\ last.wrote) =>
               last.result = Res("Size", 0, last.a, last.b)
        /\ last.status # 0 => last.result = Res("Panic", 0, 0, 0)
        /\ last.result.tag = "Size" => last.status = 0

SizePanicked ==
    /\ last.op = "size"
    /\ last.status # 0
    /\ last.wrote
    /\ last.result.tag = "Panic"

(* C4: register_xcomponent_callbacks does lookup, unwrap, registration in   *)
(* that order and stops at the first failure, with the typed error of that  *)
(* step carrying its status unchanged; it returns Ok iff all three succeed. *)
RegisterStopsAtFirstFailure ==
    last.op = "register" =>
        /\ ~last.prop =>
               /\ last.result.tag = "XcomponentPropertyMissing"
               /\ last.calls = <<LOOKUP>>
        /\ (last.prop /\ last.ustatus # 0) =>
               /\ last.result = Res("UnwrapXComponentFailed", last.ustatus, 0, 0)
               /\ last.calls = <<LOOKUP, UNWRAP>>
        /\ (last.prop /\ last.ustatus = 0 /\ last.status # 0) =>
               /\ last.result = Res("RegisterCallbackFailed", last.status, 0, 0)
               /\ last.calls = <<LOOKUP, UNWRAP, REGISTER>>
        /\ last.result.tag = "Ok" <=>
               /\ last.prop
               /\ last.ustatus = 0
               /\ last.status = 0
               /\ last.calls = <<LOOKUP, UNWRAP, REGISTER>>

RegisterStoppedAtUnwrap ==
    /\ last.op = "register"
    /\ last.prop
    /\ last.ustatus # 0
    /\ last.result.tag = "UnwrapXComponentFailed"
    /\ ~Called(last, REGISTER)

(* C5: every table address the native runtime retains is live, and no       *)
(* native-runtime thread has read a freed table.                            *)
RegisteredTableStaysValid ==
    /\ ~uaf
    /\ \A c \in Comp : nativeTable[c] # "none" => nativeTable[c] \in live

NativeThreadReadTable ==
    /\ last.op = "native_thread"
    /\ last.callback # "none"
    /\ last.callback = nativeTable[last.xcomponent]

RegisteredIsTerminal ==
    [][/\ \A c \in Comp : Registered(c) => Registered(c)'
       /\ last'.op = "register" =>
              IF last'.result.tag = "Ok"
                  THEN last'.xcomponent \in Comp =>
                           /\ nativeTable'[last'.xcomponent] = last'.callback
                           /\ last'.callback \in live'
                  ELSE \A c \in Comp : Registered(c)' = Registered(c)]_vars

RegisterFailedWhileRegistered ==
    /\ last.op = "register"
    /\ last.result.tag = "RegisterCallbackFailed"
    /\ last.xcomponent \in Comp
    /\ Registered(last.xcomponent)

(* C8: a register call whose lookup and unwrap succeed makes the native     *)
(* registration call with the unwrapped component and the given table, also *)
(* when an earlier register call already unwrapped that component.          *)
RegisterHasNoOneShotGuard ==
    (last.op = "register" /\ last.prop /\ last.ustatus = 0) =>
        /\ Called(last, REGISTER)
        /\ last.xcomponent = last.a
        /\ last.callback \in Tables

RegisteredTwice ==
    /\ last.op = "register"
    /\ last.repeat
    /\ Called(last, REGISTER)
    /\ nativeTable[last.xcomponent] # "none"

(* C9: a size or touch-event query passes the native ABI the two pointers   *)
(* the Handle was constructed from and leaves the Handle as constructed     *)
(* (a panicking size query apart, which drops it).                          *)
QueriesLeaveHandleUnchanged ==
    [][last'.op \in {"size", "get_touch_event"} =>
           /\ handle = <<[xcomponent |-> ctorArgs[1], window |-> ctorArgs[2]]>>
           /\ last'.xcomponent = ctorArgs[1]
           /\ last'.window = ctorArgs[2]
           /\ last'.result.tag # "Panic" =>
                  handle' = handle /\ ctorArgs' = ctorArgs]_vars

HandleIntactAfterFailedTouchEvent ==
    /\ last.op = "get_touch_event"
    /\ last.result.tag = "Err"
    /\ handle = <<[xcomponent |-> ctorArgs[1], window |-> ctorArgs[2]]>>
    /\ last.xcomponent = ctorArgs[1]
    /\ last.window = ctorArgs[2]
    /\ ctorArgs[1] # ctorArgs[2]

(* C10: every call into the native ABI receives a non-null component        *)
(* pointer.                                                                 *)
NativeCallsGetNonNullComponent ==
    NativeCalled => last.xcomponent # NULL

====
